---- MODULE Spec2Model ----
(***************************************************************************)
(* Model of atomicshop/addons/process_list/process_list.cpp:              *)
(* EnableDebugPrivilege, GetProcessCommandLine, RequestCancellation and   *)
(* GetProcessDetails.  One thread runs GetProcessDetails passes, step by  *)
(* step; RequestCancellation may be called from another thread at any     *)
(* moment.  Results of operating-system calls are inputs chosen with \E.  *)
(***************************************************************************)
EXTENDS Integers, Sequences, FiniteSets, TLC

\* ---- bounds of the model ----
MaxEntries == 2        \* most entries in one process snapshot
MaxLength == 3         \* largest CommandLine.Length (bytes) a target reports
MaxPasses == 2         \* GetProcessDetails calls in one behaviour

\* ---- program constants ----
MAX_PATH == 260        \* capacity of szProcessName and of szExeFile, in units
WCHAR_SIZE == 2        \* sizeof(wchar_t)

NULL == "NULL"
BUF == "buf"           \* the address returned by new wchar_t[...]
Indeterminate == -1    \* a byte of storage nothing has written yet

Min(a, b) == IF a < b THEN a ELSE b

SeqsUpTo(S, n) == UNION { [1..k -> S] : k \in 1..n }

\* L"<unknown>", the initializer of szProcessName
UNKNOWN_NAME == << "<", "u", "n", "k", "n", "o", "w", "n", ">" >>

\* executable names a snapshot entry can carry, and names the module lookup returns
ExeNames == { <<>>, << "a" >> }
ModuleNames == { << "m" >> }

Pids == 1..MaxEntries

PROCESSENTRY32W == [th32ProcessID : Pids, szExeFile : ExeNames]

\* a snapshot: a non-empty sequence of entries, one per live process (distinct pids)
Snapshots ==
  { s \in SeqsUpTo(PROCESSENTRY32W, MaxEntries) :
      \A i, j \in 1..Len(s) : i # j => s[i].th32ProcessID # s[j].th32ProcessID }

\* wcsncpy_s(dest, n, src, _TRUNCATE): dest becomes src cut to n-1 units;
\* whatever dest held before is gone, also when src is empty
wcsncpy_s(dest, n, src) == SubSeq(src, 1, Min(Len(src), n - 1))

\* the bytes at CommandLine.Buffer in the target process, 1-based
TargetByte(i) == i

\* variant: no unit is reserved for the terminator
AllocUnits_NoTerminatorUnit(Length) == Length \div WCHAR_SIZE

\* number of wchar_t units of new wchar_t[Length / sizeof(wchar_t) + 1]
AllocUnits(Length) == (Length \div WCHAR_SIZE) + 1

\* storage returned by new wchar_t[units]: units * 2 indeterminate bytes
NewBuffer(units) == [i \in 1..(units * WCHAR_SIZE) |-> Indeterminate]

\* ReadProcessMemory into buf: the first n bytes of the target's buffer arrive
CopyBytes(buf, n) ==
  [i \in 1..Len(buf) |-> IF i <= n THEN TargetByte(i) ELSE buf[i]]

\* variant: the terminator index is taken in bytes instead of units
StoreTerminator_AtByteLength(buf, unit) ==
  [i \in 1..Len(buf) |->
     IF i = (unit * WCHAR_SIZE) * WCHAR_SIZE + 1 \/ i = (unit * WCHAR_SIZE) * WCHAR_SIZE + 2
       THEN 0 ELSE buf[i]]

\* (*ppszCmdLine)[unit] = L'\0' : both bytes of the 0-based unit become 0
StoreTerminator(buf, unit) ==
  [i \in 1..Len(buf) |->
     IF i = unit * WCHAR_SIZE + 1 \/ i = unit * WCHAR_SIZE + 2 THEN 0 ELSE buf[i]]

\* CloseHandle(h): an open handle becomes closed; anything else is a bad close
CloseHandle(h) == IF h = "open" THEN "closed" ELSE "bad-close"

\* delete[] p: a live buffer becomes freed; releasing anything else is a bad free
Release(h) == [h EXCEPT !.status = IF h.status = "alloc" THEN "freed" ELSE "bad-free"]

NoEntry == [th32ProcessID |-> 0, szExeFile |-> <<>>]
NoHeap == [status |-> "none", bytes |-> <<>>]
\* a NULL cmdline argument, as the callback sees it
NullArg == [status |-> "NULL", bytes |-> << >>]
NoCancel == [begun |-> -1, calls |-> -1]
NoSys == [procs |-> << >>, createOk |-> FALSE, firstOk |-> FALSE]

VARIABLES
  cancelRequested,   \* std::atomic<bool> cancelRequested
  pc,                \* position of the thread running GetProcessDetails
  passes,            \* GetProcessDetails calls started so far
  sys,               \* what the operating system will answer during this pass
  hToken,            \* EnableDebugPrivilege: "none" | "open" | "closed"
  edpOk,             \* result of EnableDebugPrivilege: "unknown" | TRUE | FALSE
  hSnap,             \* "none" | "open" | "closed"
  snapshot,          \* the entries held by the snapshot
  cursor,            \* entries the snapshot has handed out
  pe32,              \* the PROCESSENTRY32W the loop works on
  szProcessName,     \* name buffer of the loop body
  pszCmdLine,        \* NULL or BUF
  hProcess,          \* GetProcessCommandLine: "none" | "open" | "closed"
  upp,               \* upp.CommandLine.Length as read from the target
  heap,              \* the command-line buffer: status and bytes
  calls,             \* callback invocations of the current pass, in order
  lastFail,          \* step at which GetProcessCommandLine failed for pe32, or "none"
  begun,             \* entries of the current pass the loop has committed to
  cancelAt,          \* begun and Len(calls) when the cancellation arrived
  flagAtEntry,       \* cancelRequested as it was when the current pass was entered
  repeated           \* RequestCancellation has been called with the flag already true

vars == << cancelRequested, pc, passes, sys, hToken, edpOk, hSnap, snapshot,
           cursor, pe32, szProcessName, pszCmdLine, hProcess, upp, heap,
           calls, lastFail, begun, cancelAt, flagAtEntry, repeated >>

\* variables of one pass other than pc
edpVars == << hToken, edpOk >>
snapVars == << hSnap, snapshot, cursor, pe32 >>
bodyVars == << szProcessName, pszCmdLine, hProcess, upp, heap, lastFail >>
histVars == << calls, begun >>
flagVars == << cancelRequested, cancelAt, flagAtEntry, repeated >>

Init ==
  /\ cancelRequested = FALSE
  /\ pc = "idle"
  /\ passes = 0
  /\ sys = NoSys
  /\ hToken = "none"
  /\ edpOk = "unknown"
  /\ hSnap = "none"
  /\ snapshot = << >>
  /\ cursor = 0
  /\ pe32 = NoEntry
  /\ szProcessName = << >>
  /\ pszCmdLine = NULL
  /\ hProcess = "none"
  /\ upp = 0
  /\ heap = NoHeap
  /\ calls = << >>
  /\ lastFail = "none"
  /\ begun = 0
  /\ cancelAt = NoCancel
  /\ flagAtEntry = FALSE
  /\ repeated = FALSE

\* variant: the request flips the flag instead of setting it
RequestCancellation_Toggles ==
  /\ cancelRequested' = ~cancelRequested
  /\ cancelAt' = IF cancelRequested THEN cancelAt
                  ELSE IF pc = "idle" THEN [begun |-> 0, calls |-> 0]
                  ELSE [begun |-> begun, calls |-> Len(calls)]
  /\ repeated' = (repeated \/ cancelRequested)
  /\ UNCHANGED << pc, passes, sys, edpVars, snapVars, bodyVars, histVars, flagAtEntry >>

\* ---- RequestCancellation (another thread, any moment) ----
RequestCancellation ==
  /\ cancelRequested' = TRUE
  /\ cancelAt' = IF cancelRequested THEN cancelAt
                  ELSE IF pc = "idle" THEN [begun |-> 0, calls |-> 0]
                  ELSE [begun |-> begun, calls |-> Len(calls)]
  /\ repeated' = (repeated \/ cancelRequested)
  /\ UNCHANGED << pc, passes, sys, edpVars, snapVars, bodyVars, histVars, flagAtEntry >>

\* variant: the call clears the flag before it starts
GPD_Enter_ResetsFlag ==
  /\ pc = "idle"
  /\ passes < MaxPasses
  /\ passes' = passes + 1
  /\ \E procs \in Snapshots, c \in BOOLEAN, f \in BOOLEAN :
       sys' = [procs |-> procs, createOk |-> c, firstOk |-> f]
  /\ cancelRequested' = FALSE
  /\ cancelAt' = NoCancel
  /\ flagAtEntry' = FALSE
  /\ pc' = "edp_open"
  /\ UNCHANGED << edpVars, snapVars, bodyVars, histVars, repeated >>

\* ---- GetProcessDetails: the call is made ----
GPD_Enter ==
  /\ pc = "idle"
  /\ passes < MaxPasses
  /\ passes' = passes + 1
  /\ \E procs \in Snapshots, c \in BOOLEAN, f \in BOOLEAN :
       sys' = [procs |-> procs, createOk |-> c, firstOk |-> f]
  /\ cancelAt' = IF cancelRequested THEN [begun |-> 0, calls |-> 0] ELSE NoCancel
  /\ flagAtEntry' = cancelRequested
  /\ pc' = "edp_open"
  /\ UNCHANGED << cancelRequested, edpVars, snapVars, bodyVars, histVars, repeated >>

\* ---- EnableDebugPrivilege ----
EDP_OpenProcessToken ==
  /\ pc = "edp_open"
  /\ \E ok \in BOOLEAN :
       IF ok THEN /\ hToken' = "open"
                  /\ pc' = "edp_lookup"
                  /\ UNCHANGED edpOk
             ELSE /\ edpOk' = FALSE
                  /\ pc' = "gpd_edp_failed"
                  /\ UNCHANGED hToken
  /\ UNCHANGED << passes, sys, snapVars, bodyVars, histVars, flagVars >>

EDP_LookupPrivilegeValue ==
  /\ pc = "edp_lookup"
  /\ \E ok \in BOOLEAN :
       IF ok THEN /\ pc' = "edp_adjust"
                  /\ UNCHANGED edpOk
             ELSE /\ edpOk' = FALSE
                  /\ pc' = "gpd_edp_failed"
  /\ UNCHANGED << hToken, passes, sys, snapVars, bodyVars, histVars, flagVars >>

EDP_AdjustTokenPrivileges ==
  /\ pc = "edp_adjust"
  /\ \E ok \in BOOLEAN :
       IF ok THEN /\ pc' = "edp_lasterr"
                  /\ UNCHANGED edpOk
             ELSE /\ edpOk' = FALSE
                  /\ pc' = "gpd_edp_failed"
  /\ UNCHANGED << hToken, passes, sys, snapVars, bodyVars, histVars, flagVars >>

EDP_GetLastError ==
  /\ pc = "edp_lasterr"
  /\ \E notAllAssigned \in BOOLEAN :
       IF notAllAssigned
         THEN /\ edpOk' = FALSE
              /\ pc' = "gpd_edp_failed"
              /\ UNCHANGED hToken
         ELSE /\ hToken' = CloseHandle(hToken)
              /\ edpOk' = TRUE
              /\ pc' = "gpd_snapshot"
  /\ UNCHANGED << passes, sys, snapVars, bodyVars, histVars, flagVars >>

\* ---- GetProcessDetails: setup ----
GPD_EdpFailed ==
  /\ pc = "gpd_edp_failed"
  /\ pc' = "returned"
  /\ UNCHANGED << passes, sys, edpVars, snapVars, bodyVars, histVars, flagVars >>

GPD_CreateSnapshot ==
  /\ pc = "gpd_snapshot"
  /\ IF sys.createOk
       THEN /\ hSnap' = "open"
            /\ snapshot' = sys.procs
            /\ pc' = "gpd_first"
       ELSE /\ pc' = "returned"
            /\ UNCHANGED << hSnap, snapshot >>
  /\ UNCHANGED << cursor, pe32, passes, sys, edpVars, bodyVars, histVars, flagVars >>

\* variant: a while loop: the flag is tested before the first entry is processed
GPD_Process32First_ChecksFlag ==
  /\ pc = "gpd_first"
  /\ IF sys.firstOk /\ ~cancelRequested
       THEN /\ pe32' = snapshot[1]
            /\ cursor' = 1
            /\ begun' = begun + 1
            /\ pc' = "loop_body"
            /\ UNCHANGED hSnap
       ELSE /\ hSnap' = CloseHandle(hSnap)
            /\ pc' = "returned"
            /\ UNCHANGED << pe32, cursor, begun >>
  /\ UNCHANGED << snapshot, calls, passes, sys, edpVars, bodyVars, flagVars >>

\* variant: the failure path of the first read returns without CloseHandle(hSnap)
GPD_Process32First_LeaksOnFailure ==
  /\ pc = "gpd_first"
  /\ IF sys.firstOk
       THEN /\ pe32' = snapshot[1]
            /\ cursor' = 1
            /\ begun' = begun + 1
            /\ pc' = "loop_body"
       ELSE /\ pc' = "returned"
            /\ UNCHANGED << pe32, cursor, begun >>
  /\ UNCHANGED << hSnap, snapshot, calls, passes, sys, edpVars, bodyVars, flagVars >>

\* variant: a failed first read is reported but the loop is entered anyway
GPD_Process32First_IgnoresFailure ==
  /\ pc = "gpd_first"
  /\ IF sys.firstOk
       THEN /\ pe32' = snapshot[1]
            /\ cursor' = 1
       ELSE UNCHANGED << pe32, cursor >>
  /\ begun' = begun + 1
  /\ pc' = "loop_body"
  /\ UNCHANGED << hSnap, snapshot, calls, passes, sys, edpVars, bodyVars, flagVars >>

GPD_Process32First ==
  /\ pc = "gpd_first"
  /\ IF sys.firstOk
       THEN /\ pe32' = snapshot[1]
            /\ cursor' = 1
            /\ begun' = begun + 1
            /\ pc' = "loop_body"
            /\ UNCHANGED hSnap
       ELSE /\ hSnap' = CloseHandle(hSnap)
            /\ pc' = "returned"
            /\ UNCHANGED << pe32, cursor, begun >>
  /\ UNCHANGED << snapshot, calls, passes, sys, edpVars, bodyVars, flagVars >>

\* ---- GetProcessDetails: the loop ----
GPD_LoopBody ==
  /\ pc = "loop_body"
  /\ pszCmdLine' = NULL
  /\ szProcessName' = wcsncpy_s(UNKNOWN_NAME, MAX_PATH, pe32.szExeFile)
  /\ lastFail' = "none"
  /\ pc' = "gpcl_open"
  /\ UNCHANGED << hProcess, upp, heap, passes, sys, edpVars, snapVars, histVars, flagVars >>

\* ---- GetProcessCommandLine(pe32.th32ProcessID, &pszCmdLine, szProcessName, MAX_PATH) ----
\* variant: a failed open writes the placeholder over the name
GPCL_OpenProcess_ClobbersName ==
  /\ pc = "gpcl_open"
  /\ \E ok \in BOOLEAN :
       IF ok THEN /\ hProcess' = "open"
                  /\ pc' = "gpcl_modname"
                  /\ UNCHANGED << lastFail, szProcessName >>
             ELSE /\ hProcess' = "none"
                  /\ lastFail' = "OpenProcess"
                  /\ szProcessName' = UNKNOWN_NAME
                  /\ pc' = "cb_null"
  /\ UNCHANGED << pszCmdLine, upp, heap, passes, sys, edpVars,
                  snapVars, histVars, flagVars >>

GPCL_OpenProcess ==
  /\ pc = "gpcl_open"
  /\ \E ok \in BOOLEAN :
       IF ok THEN /\ hProcess' = "open"
                  /\ pc' = "gpcl_modname"
                  /\ UNCHANGED lastFail
             ELSE /\ hProcess' = "none"
                  /\ lastFail' = "OpenProcess"
                  /\ pc' = "cb_null"
  /\ UNCHANGED << szProcessName, pszCmdLine, upp, heap, passes, sys, edpVars,
                  snapVars, histVars, flagVars >>

GPCL_GetModuleBaseNameW ==
  /\ pc = "gpcl_modname"
  /\ \/ \E m \in ModuleNames :
          /\ szProcessName' = SubSeq(m, 1, Min(Len(m), MAX_PATH))
          /\ pc' = "gpcl_ntdll"
          /\ UNCHANGED << hProcess, lastFail >>
     \/ /\ hProcess' = CloseHandle(hProcess)
        /\ lastFail' = "GetModuleBaseNameW"
        /\ pc' = "cb_null"
        /\ UNCHANGED szProcessName
  /\ UNCHANGED << pszCmdLine, upp, heap, passes, sys, edpVars, snapVars,
                  histVars, flagVars >>

\* a step of GetProcessCommandLine that only succeeds or fails:
\* on failure CloseHandle(hProcess); return false
GPCL_PlainStep(here, next, call) ==
  /\ pc = here
  /\ \E ok \in BOOLEAN :
       IF ok THEN /\ pc' = next
                  /\ UNCHANGED << hProcess, lastFail >>
             ELSE /\ hProcess' = CloseHandle(hProcess)
                  /\ lastFail' = call
                  /\ pc' = "cb_null"
  /\ UNCHANGED << szProcessName, pszCmdLine, upp, heap, passes, sys, edpVars,
                  snapVars, histVars, flagVars >>

GPCL_GetModuleHandleW == GPCL_PlainStep("gpcl_ntdll", "gpcl_getproc", "GetModuleHandleW")

GPCL_GetProcAddress == GPCL_PlainStep("gpcl_getproc", "gpcl_query", "GetProcAddress")

GPCL_NtQueryInformationProcess == GPCL_PlainStep("gpcl_query", "gpcl_readpeb", "NtQueryInformationProcess")

GPCL_ReadPeb == GPCL_PlainStep("gpcl_readpeb", "gpcl_readupp", "ReadPeb")

GPCL_ReadUpp ==
  /\ pc = "gpcl_readupp"
  /\ \/ \E Length \in 0..MaxLength :
          /\ upp' = Length
          /\ pc' = "gpcl_alloc"
          /\ UNCHANGED << hProcess, lastFail >>
     \/ /\ hProcess' = CloseHandle(hProcess)
        /\ lastFail' = "ReadUpp"
        /\ pc' = "cb_null"
        /\ UNCHANGED upp
  /\ UNCHANGED << szProcessName, pszCmdLine, heap, passes, sys, edpVars,
                  snapVars, histVars, flagVars >>

GPCL_Alloc ==
  /\ pc = "gpcl_alloc"
  /\ heap' = [status |-> "alloc", bytes |-> NewBuffer(AllocUnits(upp))]
  /\ pszCmdLine' = BUF
  /\ pc' = "gpcl_readcmd"
  /\ UNCHANGED << szProcessName, hProcess, upp, lastFail, passes, sys, edpVars, snapVars,
                  histVars, flagVars >>

\* variant: the failure path of the third read returns without CloseHandle(hProcess)
GPCL_ReadCmdLine_LeaksHandle ==
  /\ pc = "gpcl_readcmd"
  /\ \/ /\ heap' = [heap EXCEPT !.bytes = CopyBytes(heap.bytes, upp)]
        /\ pc' = "gpcl_term"
        /\ UNCHANGED << hProcess, lastFail >>
     \/ \E k \in 0..upp :
          /\ k < upp \/ upp = 0
          /\ heap' = Release([heap EXCEPT !.bytes = CopyBytes(heap.bytes, k)])
          /\ lastFail' = "ReadCmdLine"
          /\ pc' = "cb_null"
          /\ UNCHANGED hProcess
  /\ UNCHANGED << szProcessName, pszCmdLine, upp, passes, sys, edpVars, snapVars,
                  histVars, flagVars >>

\* the third read; a failed read may have copied any shorter prefix before
\* the buffer is released
GPCL_ReadCmdLine ==
  /\ pc = "gpcl_readcmd"
  /\ \/ /\ heap' = [heap EXCEPT !.bytes = CopyBytes(heap.bytes, upp)]
        /\ pc' = "gpcl_term"
        /\ UNCHANGED << hProcess, lastFail >>
     \/ \E k \in 0..upp :
          /\ k < upp \/ upp = 0
          /\ heap' = Release([heap EXCEPT !.bytes = CopyBytes(heap.bytes, k)])
          /\ hProcess' = CloseHandle(hProcess)
          /\ lastFail' = "ReadCmdLine"
          /\ pc' = "cb_null"
  /\ UNCHANGED << szProcessName, pszCmdLine, upp, passes, sys, edpVars, snapVars,
                  histVars, flagVars >>

GPCL_Terminate ==
  /\ pc = "gpcl_term"
  /\ heap' = [heap EXCEPT !.bytes = StoreTerminator(heap.bytes, upp \div WCHAR_SIZE)]
  /\ hProcess' = CloseHandle(hProcess)
  /\ pc' = "cb_ok"
  /\ UNCHANGED << szProcessName, pszCmdLine, upp, lastFail, passes, sys, edpVars, snapVars,
                  histVars, flagVars >>

\* ---- GetProcessDetails: callback, release, loop condition, return ----
\* what the callback can see through its cmdline argument
Deref(p) == IF p = NULL THEN NullArg ELSE heap

Invocation(cmdline) ==
  [pid |-> pe32.th32ProcessID, process_name |-> szProcessName, cmdline |-> Deref(cmdline)]

\* variant: the callback is not made once a cancellation has been requested
GPD_CallbackCmdLine_SkippedOnCancel ==
  /\ pc = "cb_ok"
  /\ calls' = IF cancelRequested THEN calls ELSE Append(calls, Invocation(pszCmdLine))
  /\ pc' = "delete"
  /\ UNCHANGED << begun, passes, sys, edpVars, snapVars, bodyVars, flagVars >>

GPD_CallbackCmdLine ==
  /\ pc = "cb_ok"
  /\ calls' = Append(calls, Invocation(pszCmdLine))
  /\ pc' = "delete"
  /\ UNCHANGED << begun, passes, sys, edpVars, snapVars, bodyVars, flagVars >>

GPD_Delete ==
  /\ pc = "delete"
  /\ heap' = Release(heap)
  /\ pc' = "loop_next"
  /\ UNCHANGED << szProcessName, pszCmdLine, hProcess, upp, lastFail, passes, sys, edpVars,
                  snapVars, histVars, flagVars >>

\* variant: the else branch also releases whatever pszCmdLine points to
GPD_CallbackNull_DeletesToo ==
  /\ pc = "cb_null"
  /\ calls' = Append(calls, Invocation(NULL))
  /\ heap' = IF pszCmdLine = NULL THEN heap ELSE Release(heap)
  /\ pc' = "loop_next"
  /\ UNCHANGED << begun, passes, sys, edpVars, snapVars, szProcessName, pszCmdLine,
                  hProcess, upp, lastFail, flagVars >>

\* variant: the else branch passes pszCmdLine instead of NULL
GPD_CallbackNull_PassesPointer ==
  /\ pc = "cb_null"
  /\ calls' = Append(calls, Invocation(pszCmdLine))
  /\ pc' = "loop_next"
  /\ UNCHANGED << begun, passes, sys, edpVars, snapVars, bodyVars, flagVars >>

\* variant: a failed enrichment leaves the loop
GPD_CallbackNull_Aborts ==
  /\ pc = "cb_null"
  /\ calls' = Append(calls, Invocation(NULL))
  /\ pc' = "gpd_close"
  /\ UNCHANGED << begun, passes, sys, edpVars, snapVars, bodyVars, flagVars >>

GPD_CallbackNull ==
  /\ pc = "cb_null"
  /\ calls' = Append(calls, Invocation(NULL))
  /\ pc' = "loop_next"
  /\ UNCHANGED << begun, passes, sys, edpVars, snapVars, bodyVars, flagVars >>

\* the closing brace of the do-block: the body's locals and those of the
\* GetProcessCommandLine call it made are gone, and released storage with them
BodyScopeExit ==
  /\ pszCmdLine' = NULL
  /\ szProcessName' = << >>
  /\ upp' = 0
  /\ lastFail' = "none"
  /\ heap' = IF heap.status = "freed" THEN NoHeap ELSE heap
  /\ UNCHANGED hProcess

\* variant: the loop condition is Process32NextW alone
GPD_Process32Next_SkipsFlagCheck ==
  /\ pc = "loop_next"
  /\ IF cursor < Len(snapshot)
       THEN /\ pe32' = snapshot[cursor + 1]
            /\ cursor' = cursor + 1
            /\ begun' = begun + 1
            /\ pc' = "loop_body"
       ELSE /\ pc' = "gpd_close"
            /\ UNCHANGED << pe32, cursor, begun >>
  /\ BodyScopeExit
  /\ UNCHANGED << hSnap, snapshot, calls, passes, sys, edpVars, flagVars >>

\* variant: the cursor advances but pe32 is not refreshed
GPD_Process32Next_KeepsEntry ==
  /\ pc = "loop_next"
  /\ IF cursor < Len(snapshot)
       THEN /\ cursor' = cursor + 1
            /\ pc' = "loop_cancel"
       ELSE /\ pc' = "gpd_close"
            /\ UNCHANGED cursor
  /\ BodyScopeExit
  /\ UNCHANGED << pe32, hSnap, snapshot, passes, sys, edpVars, histVars, flagVars >>

GPD_Process32Next ==
  /\ pc = "loop_next"
  /\ IF cursor < Len(snapshot)
       THEN /\ pe32' = snapshot[cursor + 1]
            /\ cursor' = cursor + 1
            /\ pc' = "loop_cancel"
       ELSE /\ pc' = "gpd_close"
            /\ UNCHANGED << pe32, cursor >>
  /\ BodyScopeExit
  /\ UNCHANGED << hSnap, snapshot, passes, sys, edpVars, histVars, flagVars >>

\* variant: the loop condition does not look at the flag
GPD_LoadCancel_IgnoresFlag ==
  /\ pc = "loop_cancel"
  /\ pc' = "loop_body"
  /\ begun' = begun + 1
  /\ UNCHANGED << calls, passes, sys, edpVars, snapVars, bodyVars, flagVars >>

GPD_LoadCancel ==
  /\ pc = "loop_cancel"
  /\ IF cancelRequested
       THEN /\ pc' = "gpd_close"
            /\ UNCHANGED begun
       ELSE /\ pc' = "loop_body"
            /\ begun' = begun + 1
  /\ UNCHANGED << calls, passes, sys, edpVars, snapVars, bodyVars, flagVars >>

GPD_CloseSnapshot ==
  /\ pc = "gpd_close"
  /\ hSnap' = CloseHandle(hSnap)
  /\ pc' = "returned"
  /\ UNCHANGED << snapshot, cursor, pe32, passes, sys, edpVars, bodyVars,
                  histVars, flagVars >>

\* variant: the locals are static and the record of callbacks is kept
GPD_Return_KeepsLocals ==
  /\ pc = "returned"
  /\ pc' = "idle"
  /\ UNCHANGED << cancelRequested, passes, sys, edpVars, snapVars, bodyVars,
                  histVars, cancelAt, flagAtEntry, repeated >>

\* GetProcessDetails has returned: its locals are gone
GPD_Return ==
  /\ pc = "returned"
  /\ pc' = "idle"
  /\ sys' = NoSys
  /\ hToken' = "none"
  /\ edpOk' = "unknown"
  /\ hSnap' = "none"
  /\ snapshot' = << >>
  /\ cursor' = 0
  /\ pe32' = NoEntry
  /\ szProcessName' = << >>
  /\ pszCmdLine' = NULL
  /\ hProcess' = "none"
  /\ upp' = 0
  /\ heap' = NoHeap
  /\ calls' = << >>
  /\ lastFail' = "none"
  /\ begun' = 0
  /\ cancelAt' = IF cancelRequested THEN [begun |-> 0, calls |-> 0] ELSE NoCancel
  /\ flagAtEntry' = FALSE
  /\ UNCHANGED << cancelRequested, passes, repeated >>

Next ==
  \/ RequestCancellation
  \/ GPD_Enter
  \/ EDP_OpenProcessToken
  \/ EDP_LookupPrivilegeValue
  \/ EDP_AdjustTokenPrivileges
  \/ EDP_GetLastError
  \/ GPD_EdpFailed
  \/ GPD_CreateSnapshot
  \/ GPD_Process32First
  \/ GPD_LoopBody
  \/ GPCL_OpenProcess
  \/ GPCL_GetModuleBaseNameW
  \/ GPCL_GetModuleHandleW
  \/ GPCL_GetProcAddress
  \/ GPCL_NtQueryInformationProcess
  \/ GPCL_ReadPeb
  \/ GPCL_ReadUpp
  \/ GPCL_Alloc
  \/ GPCL_ReadCmdLine
  \/ GPCL_Terminate
  \/ GPD_CallbackCmdLine
  \/ GPD_Delete
  \/ GPD_CallbackNull
  \/ GPD_Process32Next
  \/ GPD_LoadCancel
  \/ GPD_CloseSnapshot
  \/ GPD_Return

Spec == Init /\ [][Next]_vars

\* ---- vocabulary of the properties ----
Returned == pc = "returned"

\* privilege, snapshot creation and first read all succeed in this pass
SetupOk == edpOk = TRUE /\ sys.createOk /\ sys.firstOk

CallPids == [i \in 1..Len(calls) |-> calls[i].pid]

EntryPids(entries) == [i \in 1..Len(entries) |-> entries[i].th32ProcessID]

Cancelled == cancelAt # NoCancel

Max(a, b) == IF a > b THEN a ELSE b

\* C1: when EnableDebugPrivilege fails and the snapshot can be created and
\* read, the pass still invokes the callback: at least once, and for every
\* snapshot entry when no cancellation was requested.
C1_ElevationFailureStillEnumerates ==
  (Returned /\ edpOk = FALSE /\ sys.createOk /\ sys.firstOk)
    => /\ Len(calls) >= 1
       /\ (~cancelRequested => CallPids = EntryPids(sys.procs))

\* C2 (as stated): a cancellation that arrives before the last entry has
\* been processed leaves the pass with fewer callbacks than snapshot entries.
C2_CancelledPassIsShort ==
  (Returned /\ SetupOk /\ Cancelled /\ cancelAt.calls < Len(snapshot))
    => Len(calls) < Len(snapshot)

\* C2 (amended): a cancellation stops the pass after the entry the loop is
\* committed to (the first entry when it arrives before the loop), and the
\* pass has fewer callbacks than entries when N >= 2 and the cancellation
\* arrives before the loop has committed to the last entry.
C2_CancelStopsAfterCurrentEntry ==
  (Returned /\ SetupOk /\ Cancelled)
    => /\ Len(calls) = Max(1, cancelAt.begun)
       /\ (Len(snapshot) >= 2 /\ cancelAt.begun < Len(snapshot)
             => Len(calls) < Len(snapshot))

C2_Witness ==
  /\ Returned /\ SetupOk /\ Cancelled
  /\ Len(snapshot) = 2
  /\ cancelAt.begun = 1
  /\ Len(calls) = 1

\* C3: the callbacks of a pass follow the snapshot: the i-th callback carries
\* the pid of the i-th entry, and a pass whose setup succeeds and that sees no
\* cancellation delivers exactly the snapshot's pid sequence.
C3_CallbacksFollowSnapshotOrder ==
  /\ Len(calls) <= Len(snapshot)
  /\ \A i \in 1..Len(calls) : calls[i].pid = snapshot[i].th32ProcessID
  /\ (Returned /\ SetupOk /\ ~cancelRequested) => CallPids = EntryPids(sys.procs)

C3_Witness ==
  /\ Returned /\ SetupOk /\ ~cancelRequested
  /\ CallPids = << 2, 1 >>

\* C4: every callback invocation receives a non-empty processName.
C4_ProcessNameNonEmpty ==
  \A i \in 1..Len(calls) : calls[i].process_name # << >>

FullyWritten(b) == \A i \in 1..Len(b) : b[i] # Indeterminate

NullTerminated(b) == Len(b) >= WCHAR_SIZE /\ b[Len(b) - 1] = 0 /\ b[Len(b)] = 0

\* C5: the cmdline a callback receives is NULL or a live buffer that is fully
\* written and null-terminated; after a failure of any step of
\* GetProcessCommandLine the callback of that entry received NULL.
C5_CmdLineAbsentOrComplete ==
  /\ \A i \in 1..Len(calls) :
       \/ calls[i].cmdline = NullArg
       \/ /\ calls[i].cmdline.status = "alloc"
          /\ FullyWritten(calls[i].cmdline.bytes)
          /\ NullTerminated(calls[i].cmdline.bytes)
  /\ (pc = "loop_next" /\ lastFail # "none") => calls[Len(calls)].cmdline = NullArg
  /\ pc = "delete" => lastFail = "none"

C5_Witness ==
  /\ pc = "loop_next"
  /\ lastFail = "ReadCmdLine"
  /\ upp = 3
  /\ heap = [status |-> "freed", bytes |-> << 1, 2, Indeterminate, Indeterminate >>]
  /\ pszCmdLine = BUF
  /\ calls[Len(calls)].cmdline = NullArg

\* the buffer the callback that has just returned was given
Delivered == calls[Len(calls)].cmdline.bytes

\* C6 (as stated): a delivered command line holds every one of the Length
\* bytes read from the target, followed by nothing but the terminator, for
\* even and odd Length alike.
C6_DeliveredLengthIsReported ==
  pc = "delete" =>
    /\ Len(Delivered) > upp
    /\ \A i \in 1..upp : Delivered[i] = TargetByte(i)
    /\ \A i \in (upp + 1)..Len(Delivered) : Delivered[i] = 0

\* C6 (amended): the delivered length is Length rounded down to a whole
\* number of units: Length itself when even, Length - 1 when odd (the
\* terminator then overwrites the last byte read).
C6_DeliveredLengthIsWholeUnits ==
  pc = "delete" =>
    LET n == (upp \div WCHAR_SIZE) * WCHAR_SIZE IN
      /\ Len(Delivered) = n + WCHAR_SIZE
      /\ \A i \in 1..n : Delivered[i] = TargetByte(i)
      /\ Delivered[n + 1] = 0 /\ Delivered[n + 2] = 0
      /\ (upp % WCHAR_SIZE = 0 => n = upp)
      /\ (upp % WCHAR_SIZE = 1 => n = upp - 1)

C6_Witness ==
  /\ pc = "delete"
  /\ upp = 2
  /\ Delivered = << 1, 2, 0, 0 >>

\* C7: a failed GetProcessCommandLine is not fatal: the entry still gets its
\* callback (its pid, NULL command line), the snapshot stays open, the loop
\* ends only at the end of the snapshot or on cancellation, and an
\* uncancelled pass delivers one callback per entry.
C7_EnrichmentFailureNotFatal ==
  /\ (pc = "loop_next" /\ lastFail # "none") =>
       /\ Len(calls) = begun
       /\ calls[begun].pid = pe32.th32ProcessID
       /\ calls[begun].cmdline = NullArg
       /\ hSnap = "open"
  /\ pc = "gpd_close" => (cursor = Len(snapshot) \/ cancelRequested)
  /\ (Returned /\ SetupOk /\ ~cancelRequested) => Len(calls) = Len(snapshot)

C7_Witness ==
  /\ Returned /\ SetupOk /\ ~cancelRequested
  /\ Len(calls) = 2
  /\ calls[1].cmdline = NullArg
  /\ calls[2].cmdline # NullArg

\* C8: a pass in which the snapshot cannot be created, or its first entry
\* cannot be read, returns without any callback invocation.
C8_SetupFailureNoCallbacks ==
  (Returned /\ (~sys.createOk \/ ~sys.firstOk)) => (calls = << >> /\ begun = 0)

C8_Witness ==
  /\ Returned
  /\ edpOk = TRUE /\ sys.createOk /\ ~sys.firstOk
  /\ hSnap = "closed"
  /\ calls = << >>

\* C9: cancelRequested starts false, and once it is true no step makes it
\* false again.
C9_FlagMonotone == ~cancelRequested /\ [][cancelRequested => cancelRequested']_vars

C9_Witness ==
  /\ Returned /\ passes = 2 /\ SetupOk
  /\ Len(calls) = 1
  /\ cancelRequested
  /\ cancelAt = [begun |-> 0, calls |-> 0]

\* C10: every entry the loop has begun gets exactly one callback, with its
\* pid, before the pass returns, whenever RequestCancellation runs.
C10_BegunEntryGetsCallback ==
  /\ Len(calls) <= begun /\ begun <= Len(calls) + 1
  /\ pc \in {"delete", "loop_next", "loop_cancel", "gpd_close", "returned"}
       => Len(calls) = begun
  /\ \A i \in 1..Len(calls) : calls[i].pid = snapshot[i].th32ProcessID

C10_Witness ==
  /\ Returned
  /\ cancelAt = [begun |-> 2, calls |-> 1]
  /\ Len(calls) = 2

\* ---- progress of one pass ----
\* position of pc within the work on one entry (or within setup)
PcRankOf(l) ==
  CASE l = "idle" -> 0
    [] l = "edp_open" -> 1
    [] l = "edp_lookup" -> 2
    [] l = "edp_adjust" -> 3
    [] l = "edp_lasterr" -> 4
    [] l = "gpd_edp_failed" -> 5
    [] l = "gpd_snapshot" -> 5
    [] l = "gpd_first" -> 6
    [] l = "loop_body" -> 1
    [] l = "gpcl_open" -> 2
    [] l = "gpcl_modname" -> 3
    [] l = "gpcl_ntdll" -> 4
    [] l = "gpcl_getproc" -> 5
    [] l = "gpcl_query" -> 6
    [] l = "gpcl_readpeb" -> 7
    [] l = "gpcl_readupp" -> 8
    [] l = "gpcl_alloc" -> 9
    [] l = "gpcl_readcmd" -> 10
    [] l = "gpcl_term" -> 11
    [] l = "cb_ok" -> 12
    [] l = "cb_null" -> 12
    [] l = "delete" -> 13
    [] l = "loop_next" -> 14
    [] l = "loop_cancel" -> 15
    [] l = "gpd_close" -> 16
    [] l = "returned" -> 17

PcRank == PcRankOf(pc)

RankSpan == PcRankOf("returned") + 1

\* grows with every step of a pass and cannot exceed (entries + 1) * RankSpan
Progress == begun * RankSpan + PcRank

InPass == pc \notin {"idle", "returned"}

\* a step of the thread that runs GetProcessDetails, inside a pass
PassStep == Next /\ InPass /\ pc' # pc

\* what the i-th callback of a pass must be, given the pass's own snapshot
Dictated(i) ==
  /\ calls[i].pid = sys.procs[i].th32ProcessID
  /\ calls[i].process_name \in
       {wcsncpy_s(UNKNOWN_NAME, MAX_PATH, sys.procs[i].szExeFile)} \cup ModuleNames
  /\ calls[i].cmdline.status \in {"NULL", "alloc"}

\* C11: passes are independent and terminate: a pass starts with nothing left
\* over from an earlier one, every step of a pass makes progress towards the
\* return and a pass is never stuck, a returned pass leaves no snapshot,
\* process handle or buffer live, and an uncancelled pass whose setup
\* succeeds delivers exactly the callbacks its own snapshot dictates.
C11_PassesIndependent ==
  /\ [](pc = "edp_open" =>
          /\ hSnap = "none" /\ snapshot = << >> /\ cursor = 0 /\ pe32 = NoEntry
          /\ szProcessName = << >> /\ pszCmdLine = NULL /\ heap = NoHeap
          /\ hProcess = "none" /\ calls = << >> /\ begun = 0)
  /\ [](InPass => (ENABLED PassStep /\ Progress < (Len(sys.procs) + 1) * RankSpan))
  /\ [](Returned => (hSnap # "open" /\ hProcess # "open" /\ heap.status # "alloc"))
  /\ []((Returned /\ SetupOk /\ ~cancelRequested) =>
          /\ Len(calls) = Len(sys.procs)
          /\ \A i \in 1..Len(calls) : Dictated(i))
  /\ [][(InPass /\ pc' # pc) => Progress' > Progress]_vars

C11_Witness ==
  /\ Returned /\ passes = 2 /\ SetupOk /\ ~cancelRequested
  /\ Len(calls) = 2
  /\ hSnap = "closed"

\* C12: RequestCancellation is idempotent: a call made while the flag is
\* already true changes nothing of the module's state (only the record that
\* a repeated call happened), and the callbacks of a cancelled pass are fixed
\* by the point of the first request, however many requests follow.
C12_RequestCancellationIdempotent ==
  /\ [](repeated => cancelRequested)
  /\ []((Returned /\ SetupOk /\ Cancelled) => Len(calls) = Max(1, cancelAt.begun))
  /\ [][(cancelRequested /\ pc' = pc) =>
          UNCHANGED << cancelRequested, pc, passes, sys, edpVars, snapVars,
                       bodyVars, histVars, cancelAt, flagAtEntry >>]_vars

C12_Witness ==
  /\ Returned /\ passes = 1 /\ SetupOk
  /\ repeated
  /\ Len(snapshot) = 2
  /\ cancelAt = [begun |-> 1, calls |-> 0]
  /\ Len(calls) = 1

\* C13: every command-line buffer is released exactly once: never released
\* twice, live only between its allocation and the release, released inside
\* the reader when the third read fails and by the enumerator only after the
\* entry's callback has returned, never handed to a callback after release,
\* and not live when the next entry starts or when the pass returns.
C13_BufferReleasedOnce ==
  /\ heap.status \in {"none", "alloc", "freed"}
  /\ heap.status = "alloc" => pc \in {"gpcl_readcmd", "gpcl_term", "cb_ok", "delete"}
  /\ pc = "delete" => (heap.status = "alloc" /\ Len(calls) = begun)
  /\ (pc \in {"cb_null", "loop_next"} /\ lastFail = "ReadCmdLine") => heap.status = "freed"
  /\ (pc = "loop_next" /\ lastFail = "none") => heap.status = "freed"
  /\ \A i \in 1..Len(calls) : calls[i].cmdline.status \in {"NULL", "alloc"}

C13_Witness ==
  /\ pc = "loop_next"
  /\ begun = 2
  /\ lastFail = "none"
  /\ heap.status = "freed"
  /\ calls[1].cmdline.status = "alloc"
  /\ calls[2].cmdline.status = "alloc"

\* positions of GetProcessDetails between creating the snapshot and closing it
SnapshotInUse ==
  pc \in {"gpd_first", "loop_body", "gpcl_open", "gpcl_modname", "gpcl_ntdll",
          "gpcl_getproc", "gpcl_query", "gpcl_readpeb", "gpcl_readupp",
          "gpcl_alloc", "gpcl_readcmd", "gpcl_term", "cb_ok", "cb_null",
          "delete", "loop_next", "loop_cancel", "gpd_close"}

\* C14: a snapshot handle that was created is closed exactly once before the
\* call returns (first-read failure, end of snapshot, or cancellation), and
\* is open whenever the code uses it.
C14_SnapshotClosedOnce ==
  /\ hSnap \in {"none", "open", "closed"}
  /\ SnapshotInUse => hSnap = "open"
  /\ hSnap = "open" => SnapshotInUse
  /\ hSnap = "closed" => Returned
  /\ (Returned /\ edpOk = TRUE /\ sys.createOk) => hSnap = "closed"

C14_Witness ==
  /\ Returned /\ SetupOk
  /\ cancelRequested
  /\ Len(calls) < Len(snapshot)
  /\ hSnap = "closed"

\* C15: when OpenProcess fails for an entry, that entry's callback receives
\* the entry's pid, the executable name exactly as the snapshot entry holds
\* it, and a NULL command line.
C15_OpenFailureKeepsBaseRecord ==
  (pc = "loop_next" /\ lastFail = "OpenProcess") =>
    calls[Len(calls)] = [pid |-> pe32.th32ProcessID,
                         process_name |-> pe32.szExeFile,
                         cmdline |-> NullArg]

C15_Witness ==
  /\ pc = "loop_next"
  /\ lastFail = "OpenProcess"
  /\ pe32 = [th32ProcessID |-> 2, szExeFile |-> << "a" >>]
  /\ calls[Len(calls)].process_name = << "a" >>

\* C16: a pass entered with the flag already true, whose setup succeeds,
\* makes exactly one callback, for the first snapshot entry, then closes the
\* snapshot and returns.
C16_PriorCancellationOneCallback ==
  /\ flagAtEntry => (begun <= 1 /\ Len(calls) <= 1)
  /\ (Returned /\ SetupOk /\ flagAtEntry) =>
       /\ Len(calls) = 1
       /\ calls[1].pid = sys.procs[1].th32ProcessID
       /\ hSnap = "closed"

C16_Witness ==
  /\ Returned /\ SetupOk /\ flagAtEntry
  /\ Len(snapshot) = 2
  /\ Len(calls) = 1

\* C17: once the flag has become true, at most one more callback is made in
\* the pass, and the pass that got as far as the loop closes its snapshot.
C17_BoundedResponseToCancel ==
  /\ Cancelled => Len(calls) <= cancelAt.calls + 1
  /\ (Cancelled /\ pc \in {"loop_body", "gpcl_open"}) => Len(calls) = cancelAt.calls
  /\ (Returned /\ SetupOk /\ Cancelled) => hSnap = "closed"

C17_Witness ==
  /\ Returned /\ SetupOk /\ ~flagAtEntry
  /\ Len(snapshot) = 2
  /\ cancelAt = [begun |-> 1, calls |-> 0]
  /\ Len(calls) = 1

\* positions inside EnableDebugPrivilege
InEnableDebugPrivilege == pc \in {"edp_open", "edp_lookup", "edp_adjust", "edp_lasterr"}

\* C18: once EnableDebugPrivilege has returned, true or false, the token
\* handle it opened is no longer open.
C18_TokenClosedOnReturn ==
  (pc # "idle" /\ ~InEnableDebugPrivilege) => hToken # "open"

\* positions of GetProcessCommandLine after a successful OpenProcess
ProcessHandleInUse ==
  pc \in {"gpcl_modname", "gpcl_ntdll", "gpcl_getproc", "gpcl_query",
          "gpcl_readpeb", "gpcl_readupp", "gpcl_alloc", "gpcl_readcmd", "gpcl_term"}

\* C19: the handle OpenProcess returned is open exactly while
\* GetProcessCommandLine uses it and is closed once, on success and on every
\* failure after the open, before the function returns.
C19_ProcessHandleClosedOnce ==
  /\ hProcess \in {"none", "open", "closed"}
  /\ hProcess = "open" <=> ProcessHandleInUse
  /\ (pc \in {"cb_ok", "cb_null"} /\ lastFail # "OpenProcess") => hProcess = "closed"
  /\ (pc = "cb_null" /\ lastFail = "OpenProcess") => hProcess = "none"

C19_Witness ==
  /\ pc = "cb_null"
  /\ lastFail = "ReadCmdLine"
  /\ hProcess = "closed"

\* bytes of the buffer (1-based) the third read writes
CopyRange(n) == 1..n

\* bytes of the buffer (1-based) the store to 0-based unit writes
TerminatorRange(unit) == {unit * WCHAR_SIZE + 1, unit * WCHAR_SIZE + 2}

\* C20: the buffer holds Length/2 + 1 two-byte units, and both the copy of
\* Length bytes and the terminator at unit Length/2 fall inside it, for even
\* and odd Length.
C20_WritesWithinBuffer ==
  /\ pc \in {"gpcl_readcmd", "gpcl_term"} => Len(heap.bytes) = ((upp \div 2) + 1) * 2
  /\ pc = "gpcl_readcmd" => CopyRange(upp) \subseteq 1..Len(heap.bytes)
  /\ pc = "gpcl_term" => TerminatorRange(upp \div WCHAR_SIZE) \subseteq 1..Len(heap.bytes)

C20_Witness ==
  /\ pc = "gpcl_term"
  /\ upp = 3
  /\ Len(heap.bytes) = 4
  /\ heap.bytes[3] = TargetByte(3)

====
